---- MODULE Spec2Model ----
(***************************************************************************)
(* Model of the Expo SQLite tutorial application.                          *)
(*                                                                         *)
(*   app/index.tsx   (src/unnamed/part_000, lines 1-183): the form/list    *)
(*                   screen: the two text fields, the displayed list,      *)
(*                   loadItems and saveItem.                               *)
(*   app/_layout.tsx (src/unnamed/part_000, lines 184-213): RootLayout,    *)
(*                   which opens db.db and runs initDb before the screen   *)
(*                   mounts.                                               *)
(*   app/db.ts       is not part of the sources at hand.  initDb,          *)
(*                   insertItem and fetchItems are modelled from the three *)
(*                   SQL statements the specification and the README give. *)
(*                                                                         *)
(* Every await of the screen is a suspension point: the handler is cut     *)
(* into one action per run-to-completion segment, and the store settles    *)
(* each pending call in a step of its own, in any order.                   *)
(***************************************************************************)
EXTENDS Integers, Sequences, FiniteSets, TLC

\* ------------------------------------------------------------------ bounds

\* Presses of the Save button over the whole run (each press uses one slot).
MaxSaves == 2

\* ------------------------------------------------------------------- texts
\* A text is a sequence of one-character strings.

\* " Apples ": a name typed with white space around it.
Apples == <<" ", "A", "p", "p", "l", "e", "s", " ">>

\* What the user may type into the name field: nothing, white space only,
\* a name.
NameInputs == { <<>>, <<" ", "\t">>, Apples }

Five == <<"5">>

TwelveAbc == <<"1", "2", "a", "b", "c">>

Abc == <<"a", "b", "c">>

\* What the user may type into the quantity field (the keyboard hint does
\* not prevent non-numeric text).
QuantityInputs == { <<>>, Five, TwelveAbc, Abc }

WhiteSpace == {" ", "\t", "\n"}

RECURSIVE trimStart(_)
trimStart(s) ==
    IF s # <<>> /\ Head(s) \in WhiteSpace THEN trimStart(Tail(s)) ELSE s

RECURSIVE trimEnd(_)
trimEnd(s) ==
    IF s # <<>> /\ s[Len(s)] \in WhiteSpace
    THEN trimEnd(SubSeq(s, 1, Len(s) - 1))
    ELSE s

\* The text as it is: what `!name` would test.
untrimmed(s) == s

\* String.prototype.trim
trim(s) == trimEnd(trimStart(s))

\* ----------------------------------------------------------------- numbers
\* A JavaScript number as far as the screen uses one: NaN or an integer.

NaN == [nan |-> TRUE, int |-> 0]

Num(n) == [nan |-> FALSE, int |-> n]

\* x === NaN, which no value satisfies.
strictlyEqualsNaN(x) == FALSE

\* Number.isNaN
NumberIsNaN(x) == x.nan

DigitChars == {"0", "1", "2", "3", "4", "5", "6", "7", "8", "9"}

DigitVal(c) ==
    CASE c = "0" -> 0 [] c = "1" -> 1 [] c = "2" -> 2 [] c = "3" -> 3
      [] c = "4" -> 4 [] c = "5" -> 5 [] c = "6" -> 6 [] c = "7" -> 7
      [] c = "8" -> 8 [] c = "9" -> 9

\* The longest prefix of s made of digits of the radix.
RECURSIVE digitPrefix(_, _)
digitPrefix(s, radix) ==
    IF s # <<>> /\ Head(s) \in DigitChars /\ DigitVal(Head(s)) < radix
    THEN <<Head(s)>> \o digitPrefix(Tail(s), radix)
    ELSE <<>>

RECURSIVE digitsValue(_, _, _)
digitsValue(z, radix, acc) ==
    IF z = <<>> THEN acc
    ELSE digitsValue(Tail(z), radix, acc * radix + DigitVal(Head(z)))

\* The sign parseInt reads after the leading white space, and what follows.
signOf(S) == IF S # <<>> /\ Head(S) = "-" THEN -1 ELSE 1

afterSign(S) == IF S # <<>> /\ Head(S) \in {"+", "-"} THEN Tail(S) ELSE S

\* parseInt(string, radix) || 0: a text without a number counts as 0.
parseIntOrZero(string, radix) ==
    LET S == trimStart(string)
        Z == digitPrefix(afterSign(S), radix)
    IN  Num(signOf(S) * digitsValue(Z, radix, 0))

\* A conversion that takes the whole text or nothing: NaN unless only
\* digits follow the sign.
parseWhole(string, radix) ==
    LET S == trimStart(string)
        Z == digitPrefix(afterSign(S), radix)
    IN  IF Z = <<>> \/ Z # afterSign(S) THEN NaN
        ELSE Num(signOf(S) * digitsValue(Z, radix, 0))

\* parseInt(string, radix) of ECMAScript for a radix of at most 10: leading
\* white space is skipped, one sign is read, the digits that follow are
\* converted and whatever comes after them is ignored; NaN when no digit
\* follows.
parseInt(string, radix) ==
    LET S == trimStart(string)
        Z == digitPrefix(afterSign(S), radix)
    IN  IF Z = <<>> THEN NaN
        ELSE Num(signOf(S) * digitsValue(Z, radix, 0))

\* ------------------------------------------------------------------- store
\* The database file db.db: whether the items table exists, and its rows in
\* rowid order.

NoDatabase == [hasTable |-> FALSE, rows |-> <<>>]

\* DROP TABLE IF EXISTS items; CREATE TABLE items (...)
initDbRecreating(d) == [hasTable |-> TRUE, rows |-> <<>>]

\* CREATE TABLE IF NOT EXISTS items (id INTEGER PRIMARY KEY ..., name, quantity)
initDb(d) ==
    IF d.hasTable THEN d ELSE [hasTable |-> TRUE, rows |-> <<>>]

\* The rowid SQLite assigns to a new row: one more than the largest in use.
nextRowid(rows) ==
    IF rows = <<>> THEN 1 ELSE rows[Len(rows)].id + 1

\* INSERT INTO items (name, quantity) VALUES (?, ?)
insertItem(d, n, q) ==
    [d EXCEPT !.rows =
        Append(@, [id |-> nextRowid(@), name |-> n, quantity |-> q])]

\* SELECT * FROM items
fetchItems(d) == d.rows

\* ------------------------------------------------------------------- tasks
\* The mount effect's call of loadItems, and one slot per press of Save.

Load == 0

Saves == 1 .. MaxSaves

Tasks == {Load} \cup Saves

\* pc        where the call stands:
\*             idle       the slot's press has not happened
\*             rejected   saveItem returned at a validation check
\*             inserting  awaiting insertItem
\*             fetching   awaiting fetchItems, the store has not read yet
\*             fetched    awaiting fetchItems, the store has read `value`
\*             done       the handler returned
\*             gone       the process that ran the call was ended
\* name, quantity   the arguments saveItem passed to insertItem
\* rowid     the id of the row the insert made (0: none)
\* value     what the store read for the pending fetchItems
\* outcome   none | ok | insertFailed | fetchFailed
\* inserts, fetches   calls of insertItem and fetchItems issued so far
IdleTask ==
    [pc |-> "idle", name |-> <<>>, quantity |-> NaN, rowid |-> 0,
     value |-> <<>>, outcome |-> "none", inserts |-> 0, fetches |-> 0]

GoneTask == [IdleTask EXCEPT !.pc = "gone"]

\* A handler that has returned: its closure is dropped; its outcome and
\* the calls it issued are kept.
Returned(t, outcome) ==
    [IdleTask EXCEPT !.pc = "done", !.outcome = outcome,
                     !.inserts = t.inserts, !.fetches = t.fetches]

VARIABLES
    db,         \* the database file
    name,       \* the name field (useState(''))
    quantity,   \* the quantity field (useState(''))
    items,      \* the displayed list (useState<Item[]>([]))
    task        \* the asynchronous calls of the screen

vars == <<db, name, quantity, items, task>>

\* loadItems up to its await: fetchItems(db) is issued.
loadItemsCall(t) ==
    [t EXCEPT !.pc = "fetching", !.fetches = @ + 1]

\* The screen as App() first renders it, with the mount effect run.
Mounted(tasks) ==
    /\ name' = <<>>
    /\ quantity' = <<>>
    /\ items' = <<>>
    /\ task' = [t \in Tasks |->
                  IF t = Load THEN loadItemsCall(IdleTask)
                  ELSE IF tasks[t].pc = "idle" THEN IdleTask ELSE GoneTask]

\* First launch on a device without db.db: SQLiteProvider opens the file,
\* onInit runs initDb, the screen mounts and its effect calls loadItems.
Init ==
    /\ db = initDb(NoDatabase)
    /\ name = <<>>
    /\ quantity = <<>>
    /\ items = <<>>
    /\ task = [t \in Tasks |->
                 IF t = Load THEN loadItemsCall(IdleTask) ELSE IdleTask]

\* ----------------------------------------------------------------- actions

\* onChangeText={setName}
SetName(text) ==
    /\ text # name
    /\ name' = text
    /\ UNCHANGED <<db, quantity, items, task>>

\* onChangeText={setQuantity}
SetQuantity(text) ==
    /\ text # quantity
    /\ quantity' = text
    /\ UNCHANGED <<db, name, items, task>>

\* The slot the next press of Save uses.
HasSlot == \E s \in Saves : task[s].pc = "idle"

NextSlot ==
    CHOOSE s \in Saves :
        /\ task[s].pc = "idle"
        /\ \A r \in Saves : r < s => task[r].pc # "idle"

\* saveItem up to its first await (onPress of the Save button).
SaveItem ==
    /\ HasSlot
    /\ LET s == NextSlot
           parsedQuantity == parseInt(quantity, 10)
       IN  task' = [task EXCEPT ![s] =
                IF trim(name) = <<>> THEN [@ EXCEPT !.pc = "rejected"]
                ELSE IF NumberIsNaN(parsedQuantity)
                     THEN [@ EXCEPT !.pc = "rejected"]
                ELSE [@ EXCEPT !.pc = "inserting", !.name = name,
                               !.quantity = parsedQuantity,
                               !.inserts = @ + 1]]
    /\ UNCHANGED <<db, name, quantity, items>>

\* insertItem resolves: the row is in the table, and saveItem goes on to
\* call loadItems, which issues fetchItems.
InsertResolved(s) ==
    /\ task[s].pc = "inserting"
    /\ db' = insertItem(db, task[s].name, task[s].quantity)
    /\ task' = [task EXCEPT ![s] =
                  loadItemsCall([@ EXCEPT !.rowid = nextRowid(db.rows)])]
    /\ UNCHANGED <<name, quantity, items>>

\* insertItem rejects and the fields are cleared all the same, as a
\* finally block would.
InsertRejectedClearing(s) ==
    /\ task[s].pc = "inserting"
    /\ name' = <<>>
    /\ quantity' = <<>>
    /\ task' = [task EXCEPT ![s] = Returned(@, "insertFailed")]
    /\ UNCHANGED <<db, items>>

\* insertItem rejects inside a try of its own, and saveItem goes on to
\* call loadItems.
InsertRejectedThenLoad(s) ==
    /\ task[s].pc = "inserting"
    /\ task' = [task EXCEPT ![s] = loadItemsCall(@)]
    /\ UNCHANGED <<db, name, quantity, items>>

\* insertItem rejects: the catch of saveItem logs and the handler returns.
InsertRejected(s) ==
    /\ task[s].pc = "inserting"
    /\ task' = [task EXCEPT ![s] =
                  Returned(@, "insertFailed")]
    /\ UNCHANGED <<db, name, quantity, items>>

\* The store runs the SELECT of a pending fetchItems.
FetchRead(t) ==
    /\ task[t].pc = "fetching"
    /\ task' = [task EXCEPT ![t] =
                  [@ EXCEPT !.pc = "fetched", !.value = fetchItems(db)]]
    /\ UNCHANGED <<db, name, quantity, items>>

\* What saveItem does once its await of loadItems returns.
ClearFields(t) ==
    IF t \in Saves
    THEN name' = <<>> /\ quantity' = <<>>
    ELSE UNCHANGED <<name, quantity>>

\* fetchItems resolves and loadItems drops the value.
FetchResolvedNoSetItems(t) ==
    /\ task[t].pc = "fetched"
    /\ ClearFields(t)
    /\ task' = [task EXCEPT ![t] = Returned(@, "ok")]
    /\ UNCHANGED <<db, items>>

\* fetchItems resolves: loadItems sets the list; a save then clears the
\* two fields.
FetchResolved(t) ==
    /\ task[t].pc = "fetched"
    /\ items' = task[t].value
    /\ ClearFields(t)
    /\ task' = [task EXCEPT ![t] =
                  Returned(@, "ok")]
    /\ UNCHANGED db

\* fetchItems rejects and the catch of loadItems calls fetchItems again.
FetchRejectedRetry(t) ==
    /\ task[t].pc = "fetching"
    /\ task[t].fetches = 1
    /\ task' = [task EXCEPT ![t] = loadItemsCall(@)]
    /\ UNCHANGED <<db, name, quantity, items>>

\* fetchItems rejects: the catch of loadItems logs, loadItems returns
\* normally, and a save goes on after its await.
FetchRejected(t) ==
    /\ task[t].pc = "fetching"
    /\ ClearFields(t)
    /\ task' = [task EXCEPT ![t] =
                  Returned(@, "fetchFailed")]
    /\ UNCHANGED <<db, items>>

\* The process is ended and the application launched again: RootLayout
\* opens db.db, onInit runs initDb, and the screen mounts anew.
RootLayout ==
    /\ db' = initDb(db)
    /\ Mounted(task)

Next ==
    \/ \E text \in NameInputs : SetName(text)
    \/ \E text \in QuantityInputs : SetQuantity(text)
    \/ SaveItem
    \/ \E s \in Saves : InsertResolved(s)
    \/ \E s \in Saves : InsertRejected(s)
    \/ \E t \in Tasks : FetchRead(t)
    \/ \E t \in Tasks : FetchResolved(t)
    \/ \E t \in Tasks : FetchRejected(t)
    \/ RootLayout

Spec == Init /\ [][Next]_vars

\* ------------------------------------------------------------- properties

\* The text is empty once white space is trimmed from it.
IsBlank(text) == \A i \in 1 .. Len(text) : text[i] \in WhiteSpace

\* The text starts with a base-10 integer: a digit preceded by nothing but
\* white space and at most one sign next to it.
LeadsWithInteger(text) ==
    \E k \in 1 .. Len(text) :
        /\ text[k] \in DigitChars
        /\ \A j \in 1 .. k - 1 :
              \/ text[j] \in WhiteSpace
              \/ j = k - 1 /\ text[j] \in {"+", "-"}

InSeq(x, seq) == \E i \in 1 .. Len(seq) : seq[i] = x

\* The row a save's insert made.
RowOf(s) ==
    [id |-> task[s].rowid, name |-> task[s].name,
     quantity |-> task[s].quantity]

InFlight(t) == task[t].pc \in {"inserting", "fetching", "fetched"}

\* The step in which slot s is pressed.
Pressed(s) == task[s].pc = "idle" /\ task'[s].pc # "idle"

\* A step of save s itself (not the end of its process).
SaveStep(s) == task'[s] # task[s] /\ task'[s].pc # "gone"

\* The steps in which a call settles.
InsertFailedStep(s) ==
    task[s].pc = "inserting" /\ task'[s].outcome = "insertFailed"

FetchFailedStep(t) ==
    task[t].pc = "fetching" /\ task'[t].outcome = "fetchFailed"

SucceededStep(t) == task[t].pc = "fetched" /\ task'[t].outcome = "ok"

\* C1, as claimed: no step of a save, other than the one in which it
\* completes successfully, changes the name field, the quantity field or the
\* displayed list; so a save whose insert or fetch fails ends with all three
\* as they were.
C1_FailureLeavesUiUnchanged ==
    [][\A s \in Saves :
          (SaveStep(s) /\ ~SucceededStep(s))
              => UNCHANGED <<name, quantity, items>>]_vars

\* C1, amended: a save whose insert fails changes neither field nor the
\* list at any step; a save whose fetch fails leaves the list as it was,
\* but clears both fields in the step in which the failure is handled,
\* because loadItems catches the failure itself and returns normally.
C1_FailedSaveEffect ==
    [][\A s \in Saves :
          /\ (SaveStep(s) /\ ~SucceededStep(s) /\ ~FetchFailedStep(s))
                => UNCHANGED <<name, quantity, items>>
          /\ InsertFailedStep(s) => UNCHANGED <<name, quantity, items>>
          /\ FetchFailedStep(s)
                => items' = items /\ name' = <<>> /\ quantity' = <<>>]_vars

\* One save's insert has failed with the form left as typed; another's
\* fetch failed: its row is stored, and the list was never replaced.
C1_Witness ==
    \E s, r \in Saves :
        /\ task[s].outcome = "fetchFailed"
        /\ task[r].outcome = "insertFailed"
        /\ name = Apples
        /\ quantity = Five
        /\ items = <<>>
        /\ Len(db.rows) = 1

\* C2: a press that passes validation submits the name field as it is and
\* the parsed quantity; in the step in which that save's insert and fetch
\* have both succeeded, the displayed list holds the Item with the submitted
\* name and the parsed quantity, and both fields are empty.
C2_SuccessfulSave ==
    [][\A s \in Saves :
          /\ (Pressed(s) /\ task'[s].pc = "inserting")
                => /\ task'[s].name = name
                   /\ task'[s].quantity = parseInt(quantity, 10)
          /\ SucceededStep(s)
                => /\ InSeq(RowOf(s), items')
                   /\ name' = <<>>
                   /\ quantity' = <<>>]_vars

\* A save of " Apples " and "5" has succeeded: the list shows that name
\* with quantity 5 and the form is empty.
C2_Witness ==
    /\ \E s \in Saves : task[s].outcome = "ok"
    /\ \E i \in 1 .. Len(items) :
          items[i].name = Apples /\ items[i].quantity = Num(5)
    /\ name = <<>>
    /\ quantity = <<>>

\* C3: a press made while the name field is empty after trimming, whatever
\* the quantity field holds, issues no insert and no fetch, changes neither
\* the store, the list nor the fields, and that save does nothing later.
C3_BlankNameIsNoOp ==
    [][\A s \in Saves :
          /\ (Pressed(s) /\ IsBlank(name))
                => /\ task'[s].pc = "rejected"
                   /\ task'[s].inserts = 0
                   /\ task'[s].fetches = 0
                   /\ UNCHANGED <<db, items, name, quantity>>
          /\ task[s].pc = "rejected"
                => task'[s] \in {task[s], GoneTask}]_vars

\* A press was rejected and the form still holds a white-space name with a
\* quantity that parses.
C3_Witness ==
    /\ \E s \in Saves : task[s].pc = "rejected"
    /\ name = <<" ", "\t">>
    /\ quantity = Five
    /\ \A t \in Tasks : ~InFlight(t)
    /\ db.rows = <<>>

\* C4: a press made while the quantity field does not start with a base-10
\* integer (empty or non-numeric text) issues no insert and leaves the
\* store as it was.
C4_NonNumericQuantityIsNoOp ==
    [][\A s \in Saves :
          (Pressed(s) /\ ~LeadsWithInteger(quantity))
              => /\ task'[s].pc = "rejected"
                 /\ task'[s].inserts = 0
                 /\ db' = db]_vars

\* A press was rejected and the form still holds a name with the quantity
\* "abc".
C4_Witness ==
    /\ \E s \in Saves : task[s].pc = "rejected"
    /\ name = Apples
    /\ quantity = Abc
    /\ \A t \in Tasks : ~InFlight(t)
    /\ db.rows = <<>>

\* C5, as claimed: a press made while the quantity field holds "12abc" is
\* rejected: no insert is issued and the store is left as it was.
C5_PartialNumericRejected ==
    [][\A s \in Saves :
          (Pressed(s) /\ quantity = TwelveAbc)
              => /\ task'[s].pc = "rejected"
                 /\ task'[s].inserts = 0
                 /\ db' = db]_vars

\* C5, amended: a press made while the quantity field holds "12abc" and
\* the name is not empty after trimming is accepted: the leading digits are
\* parsed and an insert of the name with quantity 12 is issued.
C5_PartialNumericAccepted ==
    [][\A s \in Saves :
          (Pressed(s) /\ quantity = TwelveAbc /\ ~IsBlank(name))
              => /\ task'[s].pc = "inserting"
                 /\ task'[s].inserts = 1
                 /\ task'[s].name = name
                 /\ task'[s].quantity = Num(12)]_vars

\* The store holds an Item of quantity 12 although "12" is no text the
\* user can type here: it came from "12abc".
C5_Witness ==
    \E i \in 1 .. Len(db.rows) : db.rows[i].quantity = Num(12)

\* C6: a save has issued no fetch while its insert is pending or after its
\* insert failed; while its fetch is pending the row it inserted is in the
\* store, and the value the store read for that fetch holds that row.
C6_FetchAfterOwnInsert ==
    \A s \in Saves :
        /\ task[s].pc = "inserting" => task[s].fetches = 0
        /\ task[s].outcome = "insertFailed" => task[s].fetches = 0
        /\ task[s].pc \in {"fetching", "fetched"}
              => /\ task[s].rowid > 0
                 /\ task[s].fetches = 1
                 /\ InSeq(RowOf(s), db.rows)
        /\ task[s].pc = "fetched" => InSeq(RowOf(s), task[s].value)

\* Two saves overlap with each other and with the mount-time load: both
\* fetches have been read while the load's has not.
C6_Witness ==
    /\ task[Load].pc = "fetching"
    /\ \E s, r \in Saves :
          /\ s # r
          /\ task[s].pc = "fetched"
          /\ task[r].pc = "fetched"
          /\ Len(task[s].value) < Len(task[r].value)

C8_AppendOnly ==
    /\ [][\A i \in 1 .. Len(db.rows) :
             i <= Len(db'.rows) /\ db'.rows[i] = db.rows[i]]_vars
    /\ [](\A i, j \in 1 .. Len(db.rows) :
             db.rows[i].id = db.rows[j].id => i = j)

\* The application was relaunched, and initDb run again, on a store of two
\* Items; the new process has loaded both.
C8_Witness ==
    /\ \E s \in Saves : task[s].pc = "gone"
    /\ task[Load].outcome = "ok"
    /\ Len(db.rows) = 2
    /\ items = db.rows

C10_QuiescentListIsStore ==
    ( /\ \A t \in Tasks : ~InFlight(t)
      /\ \A t \in Tasks :
            task[t].outcome \notin {"insertFailed", "fetchFailed"} )
        => items = db.rows

====
